---- MODULE Spec2Model ----
(***************************************************************************)
(* Model of filters/filters.py: the classes Filter and FilterSet.          *)
(*                                                                         *)
(* Numbers.  numpy's floating point values are modelled by exact rationals *)
(* [n, d] (d > 0, lowest terms); a value that is not finite (inf or nan,   *)
(* which numpy produces with a warning, never an exception) is NonFinite.  *)
(* Quantities.  An astropy Quantity is [value, unit]; a bare array has     *)
(* unit "bare".  Frequencies are expressed in units of c / angstrom, so    *)
(* that the spectral equivalency nu = c / lambda reads nu = 1 / lambda.    *)
(***************************************************************************)
EXTENDS Integers, Sequences, FiniteSets, TLC

VARIABLES
    filt,       \* <<>> or <<f>>: the Filter object the last Filter(...) call returned
    fset,       \* <<>> or <<s>>: the FilterSet object the last FilterSet(...) call returned
    op,         \* the last operation called and its arguments
    result,     \* <<>> or <<v>>: the value the last read operation returned
    err,        \* the exception the last operation raised, NoErr when it returned
    filesRead,  \* number of catalog files np.loadtxt read during the last FilterSet(...)
    quad,       \* <<>> or <<q>>: the arrays the last Filter.__call__ handed to simps
    spectrum    \* <<>> or <<s>>: the caller's arrays wave and flux, passed to the calls

vars == <<filt, fset, op, result, err, filesRead, quad, spectrum>>

----------------------------------------------------------------------------
(* Bounds of the model *)

\* longest explicit list of Filters handed to FilterSet(...)
MaxSetLen == 2

\* largest number of *.dat tables glob finds in a catalog folder
MaxFiles == 2

----------------------------------------------------------------------------
(* Floating point arithmetic, as exact rationals *)

Abs(x) == IF x < 0 THEN -x ELSE x

RECURSIVE GCD(_, _)
GCD(a, b) == IF b = 0 THEN a ELSE GCD(b, a % b)

NonFinite == [n |-> 0, d |-> 0]

IsFinite(r) == r.d # 0

Rat(n, d) ==
    IF d = 0 THEN NonFinite
    ELSE LET g == GCD(Abs(n), Abs(d))
             s == IF (n < 0) = (d < 0) THEN 1 ELSE -1
         IN  [n |-> s * (Abs(n) \div g), d |-> Abs(d) \div g]

R(i) == [n |-> i, d |-> 1]

\* sums and products are formed over the least common denominator, and
\* products after cancelling, which keeps the intermediate integers small
RAdd(a, b) ==
    IF IsFinite(a) /\ IsFinite(b)
    THEN LET g == GCD(a.d, b.d)
         IN  Rat(a.n * (b.d \div g) + b.n * (a.d \div g), (a.d \div g) * b.d)
    ELSE NonFinite

RNeg(a) == IF IsFinite(a) THEN [n |-> -a.n, d |-> a.d] ELSE NonFinite

RSub(a, b) == RAdd(a, RNeg(b))

RMul(a, b) ==
    IF IsFinite(a) /\ IsFinite(b)
    THEN LET g1 == GCD(Abs(a.n), b.d)
             g2 == GCD(Abs(b.n), a.d)
         IN  IF a.n = 0 \/ b.n = 0 THEN R(0)
             ELSE Rat((a.n \div g1) * (b.n \div g2), (a.d \div g2) * (b.d \div g1))
    ELSE NonFinite

\* x / 0 is inf or nan
RDiv(a, b) ==
    IF IsFinite(a) /\ IsFinite(b) /\ b.n # 0
    THEN RMul(a, IF b.n < 0 THEN [n |-> -b.d, d |-> -b.n] ELSE [n |-> b.d, d |-> b.n])
    ELSE NonFinite

\* comparisons with nan are False
RLt(a, b) == IsFinite(a) /\ IsFinite(b) /\ RSub(a, b).n < 0

RLe(a, b) == IsFinite(a) /\ IsFinite(b) /\ RSub(a, b).n <= 0

RSeq(s) == [i \in 1..Len(s) |-> R(s[i])]

\* np.sqrt, kept symbolic: the square root of radicand; nan for a negative one
Sqrt(r) == [radicand |-> IF IsFinite(r) /\ r.n >= 0 THEN r ELSE NonFinite]

\* -2.5 * np.log10(ratio), kept symbolic; nan or inf for ratio <= 0
Mag(r) == [ratio |-> IF IsFinite(r) /\ r.n > 0 THEN r ELSE NonFinite]

SeqMin(s) == CHOOSE v \in {s[i] : i \in 1..Len(s)} : \A j \in 1..Len(s) : v <= s[j]

SeqMax(s) == CHOOSE v \in {s[i] : i \in 1..Len(s)} : \A j \in 1..Len(s) : v >= s[j]

Perms(n) == {p \in [1..n -> 1..n] : \A i, j \in 1..n : p[i] = p[j] => i = j}

----------------------------------------------------------------------------
(* scipy.integrate.simps(y, x) for an odd number of samples: composite     *)
(* Simpson's rule over the intervals of x, which need not be equal         *)

\* one pair of intervals, of widths h0 and h1, with hsum, hprod and h0divh1
\* as scipy names them
PanelValue(y0, y1, y2, hsum, hprod, h0divh1) ==
    RMul(RDiv(hsum, R(6)),
         RAdd(RAdd(RMul(y0, RSub(R(2), RDiv(R(1), h0divh1))),
                   RDiv(RMul(RMul(y1, hsum), hsum), hprod)),
              RMul(y2, RSub(R(2), h0divh1))))

PanelOf(y0, y1, y2, h0, h1) ==
    PanelValue(y0, y1, y2, RAdd(h0, h1), RMul(h0, h1), RDiv(h0, h1))

SimpsPanel(y, x, i) ==
    PanelOf(y[i], y[i + 1], y[i + 2], RSub(x[i + 1], x[i]), RSub(x[i + 2], x[i + 1]))

RECURSIVE SimpsFrom(_, _, _)
SimpsFrom(y, x, i) ==
    IF i + 2 > Len(x) THEN R(0)
    ELSE RAdd(SimpsPanel(y, x, i), SimpsFrom(y, x, i + 2))

Simps(y, x) == SimpsFrom(y, x, 1)

----------------------------------------------------------------------------
(* Units *)

\* Quantity.to(u.angstrom) of a length; a bare number is multiplied by u.angstrom
ToAngstrom(v, unit) == IF unit = "nm" THEN 10 * v ELSE v

\* AB flux zeropoint, in Jy
zp_AB == 3631

NoErr == [type |-> "", line |-> 0, msg |-> <<>>]

Raised(type, line) == [type |-> type, line |-> line, msg |-> <<>>]

----------------------------------------------------------------------------
(* class Filter *)

\* lines 46-50: the converted copy of line 47 is overwritten by line 50
StoredWave(wave) ==
    IF wave.unit = "bare" THEN [value |-> wave.value, unit |-> "angstrom"]
    ELSE wave

\* np.any in place of np.all
RespValidAny(resp) == \E i \in 1..Len(resp) : resp[i] <= 1

\* line 52: np.all(resp <= 1)
RespValid(resp) == \A i \in 1..Len(resp) : resp[i] <= 1

\* the first moment without its normalisation
FirstMomentUnnormalised(r, x, norm) ==
    Simps([i \in 1..Len(x) |-> RMul(r[i], x[i])], x)

\* line 57, the first moment: simps(resp / self.norm * wave, wave)
FirstMoment(r, x, norm) ==
    Simps([i \in 1..Len(x) |-> RMul(RDiv(r[i], norm), x[i])], x)

Square(a) == RMul(a, a)

\* line 59, the second moment: sqrt(simps(resp / norm * (wave - center)**2, wave))
SecondMoment(r, x, norm, center) ==
    Sqrt(Simps([i \in 1..Len(x) |->
                   RMul(RDiv(r[i], norm), Square(RSub(x[i], center)))], x))

FilterObject(w, resp, name, zp, norm, center, width) ==
    [wave |-> w, resp |-> resp, name |-> name, zp |-> zp, norm |-> norm,
     center |-> [value |-> center, unit |-> w.unit],
     width |-> [value |-> width, unit |-> w.unit]]

WithCenter(w, resp, name, zp, norm, center) ==
    FilterObject(w, resp, name, zp, norm, center,
                 SecondMoment(RSeq(resp), RSeq(w.value), norm, center))

WithNorm(w, resp, name, zp, norm) ==
    WithCenter(w, resp, name, zp, norm, FirstMoment(RSeq(resp), RSeq(w.value), norm))

Stored(w, resp, name, zp) ==
    WithNorm(w, resp, name, zp, Simps(RSeq(resp), RSeq(w.value)))

\* lines 46-59 past the assertion: the attributes of the new Filter
NewFilter(wave, resp, name, zp) == Stored(StoredWave(wave), resp, name, zp)

\* Filter(wave, resp, name, zp): the exception raised and the object returned
FilterInit(wave, resp, name, zp) ==
    IF RespValid(resp)
    THEN [err |-> NoErr, obj |-> <<NewFilter(wave, resp, name, zp)>>]
    ELSE [err |-> Raised("AssertionError", 52), obj |-> <<>>]

\* the straight line through (x0, y0) and (x1, y1), at q
Linear(x0, y0, x1, y1, q) ==
    RAdd(R(y0), RDiv(RMul(R(y1 - y0), R(q - x0)), R(x1 - x0)))

Segment(x, y, i, q) == Linear(x[i], y[i], x[i + 1], y[i + 1], q)

\* interp1d(x, y, bounds_error=False, fill_value=0) evaluated at q
Interp1d(x, y, q) ==
    IF q < SeqMin(x) \/ q > SeqMax(x) THEN R(0)
    ELSE Segment(x, y,
                 CHOOSE k \in 1..(Len(x) - 1) :
                     \/ x[k] <= q /\ q <= x[k + 1]
                     \/ x[k + 1] <= q /\ q <= x[k],
                 q)

\* Filter.interp(new_wave), lines 111-116
Interp(f, new_wave) ==
    [i \in 1..Len(new_wave.value) |->
        Interp1d(f.wave.value, f.resp, ToAngstrom(new_wave.value[i], new_wave.unit))]

\* Quantity.to(u.Jy) of a flux density; a bare number is multiplied by u.Jy
ToJy(v, unit) == IF unit = "mJy" THEN Rat(v, 1000) ELSE R(v)

\* wave.to(u.Hz, equivalencies=u.spectral()), in units of c / angstrom
ToFreq(v, unit) == Rat(1, ToAngstrom(v, unit))

\* the order np.sort gives floats: ascending, nan last
KeyLt(a, b) == IsFinite(a) /\ (~IsFinite(b) \/ RLt(a, b))

\* np.argsort(keys): an index array that sorts keys; which one is not
\* specified when keys are equal
ArgSorts(keys) ==
    {p \in Perms(Len(keys)) :
        \A i, j \in 1..Len(keys) : i < j => ~KeyLt(keys[p[j]], keys[p[i]])}

Take(a, idx) == [p \in 1..Len(idx) |-> a[idx[p]]]

Freqs(wave) == [i \in 1..Len(wave.value) |-> ToFreq(wave.value[i], wave.unit)]

Fluxes(fd) == [i \in 1..Len(fd.value) |-> ToJy(fd.value[i], fd.unit)]

\* np.argsort of distinct keys
ArgSort(keys) == CHOOSE p \in ArgSorts(keys) : TRUE

\* flux_density left in the order of the input
ReorderedButFlux(resp, freq, fd, idx) ==
    [new_resp |-> Take(resp, idx), freq |-> Take(freq, idx), flux_density |-> fd]

\* lines 89-91: the three arrays indexed by idx
Reordered(resp, freq, fd, idx) ==
    [new_resp |-> Take(resp, idx), freq |-> Take(freq, idx),
     flux_density |-> Take(fd, idx)]

\* line 88: idx = np.argsort(freq)
SortedByFreq(resp, freq, fd) == Reordered(resp, freq, fd, ArgSort(freq))

\* Filter.__call__, lines 78-91: the arrays handed to simps
Quadrature(f, wave, flux_density) ==
    SortedByFreq(Interp(f, wave), Freqs(wave), Fluxes(flux_density))

Products(a, b) == [p \in 1..Len(a) |-> RMul(a[p], b[p])]

Scaled(c, a) == [p \in 1..Len(a) |-> RMul(R(c), a[p])]

\* lines 92-97: the flux in Jy Hz, or the magnitude against the zeropoint
Integrated(q, zp, mag) ==
    IF mag
    THEN [kind |-> "mag",
          value |-> Mag(RDiv(Simps(Products(q.new_resp, q.flux_density), q.freq),
                             Simps(Scaled(zp, q.new_resp), q.freq)))]
    ELSE [kind |-> "flux",
          value |-> Simps(Products(q.new_resp, q.flux_density), q.freq)]

\* Filter.__call__(wave, flux_density, mag)
FilterCall(f, wave, flux_density, mag) ==
    Integrated(Quadrature(f, wave, flux_density), f.zp, mag)

----------------------------------------------------------------------------
(* class FilterSet.  A str is a sequence of characters. *)

Whitespace == {" ", "\n"}

RECURSIVE LStrip(_)
LStrip(s) == IF s # <<>> /\ Head(s) \in Whitespace THEN LStrip(Tail(s)) ELSE s

RECURSIVE RStrip(_)
RStrip(s) ==
    IF s # <<>> /\ s[Len(s)] \in Whitespace THEN RStrip(SubSeq(s, 1, Len(s) - 1)) ELSE s

\* str.strip()
Strip(s) == RStrip(LStrip(s))

Upper == <<"A", "B", "C", "D", "E", "F", "G", "H", "I", "J", "K", "L", "M", "N", "O", "P", "Q", "R", "S", "T", "U", "V", "W", "X", "Y", "Z">>

Lower_ == <<"a", "b", "c", "d", "e", "f", "g", "h", "i", "j", "k", "l", "m", "n", "o", "p", "q", "r", "s", "t", "u", "v", "w", "x", "y", "z">>

LowerChar(c) ==
    IF \E k \in 1..Len(Upper) : Upper[k] = c
    THEN Lower_[CHOOSE k \in 1..Len(Upper) : Upper[k] = c]
    ELSE c

\* str.lower()
Lower(s) == [i \in 1..Len(s) |-> LowerChar(s[i])]

\* an unknown name falls back to the SDSS catalog
CatalogOfDefaulting(filters) ==
    LET key == Lower(Strip(filters))
    IN  IF key \in {<<"c", "f", "h", "t">>, <<"m", "e", "g", "a", "c", "a", "m">>, <<"c", "f", "h", "t", "/", "m", "e", "g", "a", "c", "a", "m">>}
        THEN [found |-> TRUE, name |-> "CFHT/MegaCam", folder |-> "data/cfht/megacam/*.dat"]
        ELSE [found |-> TRUE, name |-> "SDSS", folder |-> "data/sdss/*.dat"]

\* lines 130-139: the catalog a name selects
CatalogOf(filters) ==
    LET key == Lower(Strip(filters))
    IN  IF key = <<"s", "d", "s", "s">>
        THEN [found |-> TRUE, name |-> "SDSS", folder |-> "data/sdss/*.dat"]
        ELSE IF key \in {<<"c", "f", "h", "t">>, <<"m", "e", "g", "a", "c", "a", "m">>, <<"c", "f", "h", "t", "/", "m", "e", "g", "a", "c", "a", "m">>}
        THEN [found |-> TRUE, name |-> "CFHT/MegaCam", folder |-> "data/cfht/megacam/*.dat"]
        ELSE [found |-> FALSE, name |-> "", folder |-> ""]

\* line 139: "Can't find " + filters + " filter set!"
LookupMessage(filters) == <<"C", "a", "n", "'", "t", " ", "f", "i", "n", "d", " ">> \o filters \o <<" ", "f", "i", "l", "t", "e", "r", " ", "s", "e", "t", "!">>

\* line 144 for each table: Filter(wave * u.angstrom, resp)
Made(tables) ==
    [k \in 1..Len(tables) |->
        FilterInit([value |-> tables[k].wave, unit |-> "angstrom"], tables[k].resp,
                   "", zp_AB)]

Rejected(made) == {k \in 1..Len(made) : made[k].err # NoErr}

FirstOf(ks) == CHOOSE k \in ks : \A j \in ks : k <= j

Loaded(made, bad) ==
    IF bad = {}
    THEN [err |-> NoErr, filters |-> [k \in 1..Len(made) |-> made[k].obj[1]],
          read |-> Len(made)]
    ELSE [err |-> made[FirstOf(bad)].err, filters |-> <<>>, read |-> FirstOf(bad)]

LoadedFrom(made) == Loaded(made, Rejected(made))

\* lines 140-144: the Filters built from the tables glob found, in its order,
\* up to the first table Filter(...) rejects
LoadTables(tables) == LoadedFrom(Made(tables))

\* FilterSet.center, lines 166-168
SetCenter(s) ==
    [value |-> [i \in 1..Len(s.filters) |-> s.filters[i].center.value],
     unit |-> s.filters[1].wave.unit]

\* FilterSet.width, lines 170-172
SetWidth(s) ==
    [value |-> [i \in 1..Len(s.filters) |-> s.filters[i].width.value],
     unit |-> s.filters[1].wave.unit]

\* the filters called last to first
SetCallReversed(s, wave, flux, mag) ==
    [i \in 1..Len(s.filters) |->
        FilterCall(s.filters[Len(s.filters) + 1 - i], wave, flux, mag)]

\* FilterSet.__call__, lines 163-164
SetCall(s, wave, flux, mag) ==
    [i \in 1..Len(s.filters) |-> FilterCall(s.filters[i], wave, flux, mag)]

FromCatalog(name, loaded) ==
    [err |-> loaded.err, name |-> name, filters |-> loaded.filters, read |-> loaded.read]

Looked(cat, str, tables) ==
    IF cat.found THEN FromCatalog(cat.name, LoadTables(tables))
    ELSE [err |-> [type |-> "ValueError", line |-> 139, msg |-> LookupMessage(str)],
          name |-> "", filters |-> <<>>, read |-> 0]

\* lines 128-147: self.name, self.filters and the files read before the
\* assertion of line 148; filters is [str |-> characters] or [list |-> Filters]
Gathered(filters, name, tables) ==
    IF filters.isstr THEN Looked(CatalogOf(filters.str), filters.str, tables)
    ELSE [err |-> NoErr, name |-> name, filters |-> filters.list, read |-> 0]

\* len(filters), of the argument
ArgLen(filters) == IF filters.isstr THEN Len(filters.str) ELSE Len(filters.list)

\* lines 148-150: the exception raised, if any, before the sort.  With
\* self.filters empty, self.center raises IndexError at self[0]
SetInitError(filters, g) ==
    IF g.err # NoErr THEN g.err
    ELSE IF ~(ArgLen(filters) > 0) THEN Raised("AssertionError", 148)
    ELSE IF g.filters = <<>> THEN Raised("IndexError", 168)
    ELSE NoErr

\* lines 150-151: the index arrays np.argsort may return for the centers
SortOrders(fs) == ArgSorts([i \in 1..Len(fs) |-> fs[i].center.value])

----------------------------------------------------------------------------
(* Inputs *)

WaveUnits == {"bare", "angstrom", "nm"}

\* wavelength grids of response tables: strictly increasing, odd length
WaveGrids ==
    {<<1, 2, 3>>, <<2, 4, 6>>, <<1, 2, 5>>, <<10, 20, 30>>, <<20, 30, 60>>,
     <<1, 2, 3, 4, 5>>}

RespVals == {-1, 0, 1, 2}

\* response tables for a grid of n samples: every table over RespVals for
\* the three-sample grids, the 0/1 tables for longer grids
RespSeqs(n) == IF n = 3 THEN [1..n -> RespVals] ELSE [1..n -> {0, 1}]

FilterNames == {"", "g"}

\* zeropoints, in Jy: the default and another one
Zeropoints == {zp_AB, zp_AB + 1}

FilterArgs ==
    UNION {{[wave |-> [value |-> g, unit |-> u], resp |-> r, name |-> nm, zp |-> zp] :
               u \in WaveUnits, r \in RespSeqs(Len(g)), nm \in FilterNames,
               zp \in Zeropoints} : g \in WaveGrids}

QueryVals == {1, 2, 3, 5, 6, 7, 10, 30, 60, 100}

PermutedSeqs(base) == {Take(base, p) : p \in Perms(Len(base))}

\* spectra: distinct wavelengths in any order; 60, 30, 20 angstrom are evenly
\* spaced in frequency, 30, 20, 10 angstrom are not
SpectrumWaves ==
    {[value |-> v, unit |-> u] :
        v \in PermutedSeqs(<<20, 30, 60>>), u \in {"bare", "angstrom"}}
    \cup {[value |-> v, unit |-> "bare"] : v \in PermutedSeqs(<<10, 20, 30>>)}
    \cup {[value |-> v, unit |-> "nm"] : v \in PermutedSeqs(<<2, 3, 6>>)}

FluxVals == {0, 1, 2}

SpectrumFluxes ==
    {[value |-> v, unit |-> "bare"] : v \in [1..3 -> FluxVals]}
    \cup {[value |-> v, unit |-> "mJy"] : v \in PermutedSeqs(<<0, 1, 2>>)}

\* the filters spectra are measured with
CallFilterArgs ==
    {[wave |-> [value |-> g, unit |-> u], resp |-> r, name |-> "", zp |-> zp_AB] :
        g \in {<<10, 20, 30>>, <<20, 30, 60>>},
        u \in {"angstrom", "nm"},
        r \in {<<1, 1, 1>>, <<0, 0, 1>>, <<-1, 1, 0>>}}

\* names asked of FilterSet(...)
CatalogNames ==
    {<<"s", "d", "s", "s">>,
     <<" ", "S", "D", "S", "S", "\n">>,
     <<"S", "d", "s", "s">>,
     <<"c", "f", "h", "t">>,
     <<"M", "e", "g", "a", "C", "a", "m">>,
     <<"c", "f", "h", "t", "/", "m", "e", "g", "a", "c", "a", "m">>,
     <<>>,
     <<" ">>,
     <<"s", "d", "s", "s", "2">>,
     <<"s", " ", "d", "s", "s">>,
     <<"2", "m", "a", "s", "s">>}

\* the tables a catalog folder may hold: (wavelength, response) columns
TablePool ==
    {[wave |-> <<10, 20, 30>>, resp |-> <<0, 1, 0>>],
     [wave |-> <<20, 30, 60>>, resp |-> <<1, 1, 0>>],
     [wave |-> <<10, 20, 30>>, resp |-> <<0, 2, 0>>]}

\* what glob.glob may return for a catalog folder
TableSeqs == UNION {[1..n -> TablePool] : n \in 0..MaxFiles}

\* the Filters explicit lists are made of: grids in angstroms and in
\* nanometres, two of them with equal centers
SetFilterArgs ==
    {[wave |-> [value |-> <<10, 20, 30>>, unit |-> "angstrom"], resp |-> <<0, 1, 0>>],
     [wave |-> [value |-> <<10, 20, 30>>, unit |-> "bare"], resp |-> <<1, 1, 1>>],
     [wave |-> [value |-> <<20, 30, 60>>, unit |-> "angstrom"], resp |-> <<1, 1, 1>>],
     [wave |-> [value |-> <<20, 30, 60>>, unit |-> "bare"], resp |-> <<0, 0, 1>>],
     [wave |-> [value |-> <<2, 3, 6>>, unit |-> "nm"], resp |-> <<0, 1, 1>>]}

SetFilterPool == {FilterInit(a.wave, a.resp, "", zp_AB).obj[1] : a \in SetFilterArgs}

FilterLists == UNION {[1..n -> SetFilterPool] : n \in 0..MaxSetLen}

SetArgs ==
    {[isstr |-> TRUE, str |-> c, list |-> <<>>] : c \in CatalogNames}
    \cup {[isstr |-> FALSE, str |-> <<>>, list |-> l] : l \in FilterLists}

SetNames == {"", "mine"}

\* the caller's spectra
SetSpectra ==
    {[wave |-> [value |-> <<20, 30, 60>>, unit |-> "bare"],
      flux |-> [value |-> <<1, 1, 1>>, unit |-> "bare"]],
     [wave |-> [value |-> <<60, 20, 30>>, unit |-> "angstrom"],
      flux |-> [value |-> <<0, 1, 2>>, unit |-> "mJy"]],
     [wave |-> [value |-> <<10, 30, 20>>, unit |-> "angstrom"],
      flux |-> [value |-> <<2, 1, 1>>, unit |-> "bare"]],
     [wave |-> [value |-> <<2, 3, 6>>, unit |-> "nm"],
      flux |-> [value |-> <<1, 0, 2>>, unit |-> "bare"]]}

----------------------------------------------------------------------------
(* Operations on a Filter *)

Constructed(a, out) ==
    /\ filt' = out.obj
    /\ err' = out.err
    /\ op' = [name |-> "Filter", args |-> a]
    /\ result' = <<>>
    /\ quad' = <<>>
    /\ UNCHANGED <<fset, filesRead, spectrum>>

\* Filter(wave, resp, name, zp)
Construct(a) == Constructed(a, FilterInit(a.wave, a.resp, a.name, a.zp))

\* one object's life: constructed once, then read any number of times
Fresh == op.name = ""

ConstructFilter == Fresh /\ \E a \in FilterArgs : Construct(a)

InterpQuery ==
    /\ filt # <<>>
    /\ \E q \in QueryVals, u \in WaveUnits :
         LET nw == [value |-> <<q>>, unit |-> u]
         IN  /\ result' = <<Interp(filt[1], nw)>>
             /\ op' = [name |-> "interp", args |-> nw]
    /\ err' = NoErr
    /\ quad' = <<>>
    /\ UNCHANGED <<filt, fset, filesRead, spectrum>>

\* one call on the filter just constructed
CallFilter ==
    /\ op.name = "Filter"
    /\ filt # <<>>
    /\ \E w \in SpectrumWaves, fd \in SpectrumFluxes, mag \in BOOLEAN :
         /\ result' = <<FilterCall(filt[1], w, fd, mag)>>
         /\ quad' = <<Quadrature(filt[1], w, fd)>>
         /\ op' = [name |-> "call",
                   args |-> [wave |-> w, flux_density |-> fd, mag |-> mag]]
    /\ err' = NoErr
    /\ UNCHANGED <<filt, fset, filesRead, spectrum>>

ConstructCallFilter == Fresh /\ \E a \in CallFilterArgs : Construct(a)

InitFilter ==
    /\ filt = <<>>
    /\ fset = <<>>
    /\ op = [name |-> "", args |-> <<>>]
    /\ result = <<>>
    /\ err = NoErr
    /\ filesRead = 0
    /\ quad = <<>>
    /\ spectrum = <<>>

NextFilter == ConstructFilter \/ InterpQuery

SpecFilter == InitFilter /\ [][NextFilter]_vars

NextCall == ConstructCallFilter \/ CallFilter

SpecCall == InitFilter /\ [][NextCall]_vars

----------------------------------------------------------------------------
(* Operations on a FilterSet *)

SetConstructed(a, name, tables, g, e) ==
    /\ op' = [name |-> "FilterSet",
              args |-> [filters |-> a, name |-> name, tables |-> tables]]
    /\ err' = e
    /\ filesRead' = g.read
    /\ IF e # NoErr THEN fset' = <<>>
       ELSE \E idx \in SortOrders(g.filters) :
               fset' = <<[name |-> g.name, filters |-> Take(g.filters, idx)]>>
    /\ result' = <<>>
    /\ quad' = <<>>
    /\ UNCHANGED <<filt, spectrum>>

SetGathered(a, name, tables, g) ==
    SetConstructed(a, name, tables, g, SetInitError(a, g))

\* FilterSet(filters, name), with tables what glob finds in a catalog folder
ConstructSet ==
    /\ Fresh
    /\ \E a \in SetArgs, name \in SetNames, tables \in TableSeqs :
         /\ (a.isstr \/ tables = <<>>)
         /\ SetGathered(a, name, tables, Gathered(a, name, tables))

Returns(name, args, value) ==
    /\ op' = [name |-> name, args |-> args]
    /\ result' = <<value>>
    /\ err' = NoErr

\* S(wave, flux, mag)
SetCallOp ==
    /\ fset # <<>>
    /\ \E mag \in BOOLEAN :
         Returns("setcall", [mag |-> mag],
                 SetCall(fset[1], spectrum[1].wave, spectrum[1].flux, mag))
    /\ quad' = <<>>
    /\ UNCHANGED <<filt, fset, filesRead, spectrum>>

\* S.center
SetCenterOp ==
    /\ fset # <<>>
    /\ Returns("center", <<>>, SetCenter(fset[1]))
    /\ quad' = <<>>
    /\ UNCHANGED <<filt, fset, filesRead, spectrum>>

\* S.width
SetWidthOp ==
    /\ fset # <<>>
    /\ Returns("width", <<>>, SetWidth(fset[1]))
    /\ quad' = <<>>
    /\ UNCHANGED <<filt, fset, filesRead, spectrum>>

\* S[i - 1], lines 156-157
GetItem ==
    /\ fset # <<>>
    /\ \E i \in 1..Len(fset[1].filters) :
         Returns("getitem", [index |-> i], fset[1].filters[i])
    /\ quad' = <<>>
    /\ UNCHANGED <<filt, fset, filesRead, spectrum>>

\* list(S), lines 159-161
Iterate ==
    /\ fset # <<>>
    /\ Returns("iter", <<>>, fset[1].filters)
    /\ quad' = <<>>
    /\ UNCHANGED <<filt, fset, filesRead, spectrum>>

\* interp that keeps the grid it converted: self.wave = self.wave.to(u.angstrom)
MemberInterpStoring ==
    /\ fset # <<>>
    /\ \E i \in 1..Len(fset[1].filters) :
         /\ Returns("interp", [index |-> i], Interp(fset[1].filters[i], spectrum[1].wave))
         /\ fset' = <<[fset[1] EXCEPT
                         !.filters[i].wave =
                             [value |-> [k \in 1..Len(@.value) |-> ToAngstrom(@.value[k], @.unit)],
                              unit |-> "angstrom"]]>>
    /\ quad' = <<>>
    /\ UNCHANGED <<filt, filesRead, spectrum>>

\* S[i - 1].interp(wave)
MemberInterp ==
    /\ fset # <<>>
    /\ \E i \in 1..Len(fset[1].filters) :
         Returns("interp", [index |-> i], Interp(fset[1].filters[i], spectrum[1].wave))
    /\ quad' = <<>>
    /\ UNCHANGED <<filt, fset, filesRead, spectrum>>

\* S[i - 1](wave, flux, mag)
MemberCall ==
    /\ fset # <<>>
    /\ \E i \in 1..Len(fset[1].filters), mag \in BOOLEAN :
         /\ Returns("call", [index |-> i, mag |-> mag],
                    FilterCall(fset[1].filters[i], spectrum[1].wave, spectrum[1].flux, mag))
         /\ quad' = <<Quadrature(fset[1].filters[i], spectrum[1].wave, spectrum[1].flux)>>
    /\ UNCHANGED <<filt, fset, filesRead, spectrum>>

InitSet ==
    /\ filt = <<>>
    /\ fset = <<>>
    /\ op = [name |-> "", args |-> <<>>]
    /\ result = <<>>
    /\ err = NoErr
    /\ filesRead = 0
    /\ quad = <<>>
    /\ spectrum \in {<<s>> : s \in SetSpectra}

NextSet ==
    \/ ConstructSet
    \/ SetCallOp
    \/ SetCenterOp
    \/ SetWidthOp
    \/ GetItem
    \/ Iterate
    \/ MemberInterp
    \/ MemberCall

SpecSet == InitSet /\ [][NextSet]_vars

----------------------------------------------------------------------------
(* Properties of Filter construction and Filter.interp *)

JustConstructed == op.name = "Filter"

HasOverOne(resp) == \E i \in 1..Len(resp) : resp[i] > 1

\* C2: Filter(wave, resp, ...) with some resp value above 1 raises the
\* assertion of line 52 and returns no Filter, whatever the other arguments
C2_OverOneRejected ==
    (JustConstructed /\ HasOverOne(op.args.resp))
        => /\ err = Raised("AssertionError", 52)
           /\ filt = <<>>

\* a table with one value above 1 among valid ones, on a nanometre grid with
\* a name and a zeropoint of its own, was rejected
C2_Witness ==
    /\ JustConstructed
    /\ op.args.resp = <<0, 2, 1>>
    /\ op.args.wave.unit = "nm"
    /\ op.args.name = "g"
    /\ op.args.zp # zp_AB
    /\ err.type = "AssertionError"
    /\ filt = <<>>

InAngstrom(wave) ==
    [value |-> [i \in 1..Len(wave.value) |-> ToAngstrom(wave.value[i], wave.unit)],
     unit |-> "angstrom"]

GridAngstrom(f, v) == ToAngstrom(v, f.wave.unit)

PhysicallyOutside(f, q, u) ==
    \/ ToAngstrom(q, u) < GridAngstrom(f, SeqMin(f.wave.value))
    \/ ToAngstrom(q, u) > GridAngstrom(f, SeqMax(f.wave.value))

\* C6: Filter.interp returns exactly 0 at every query wavelength that lies
\* physically outside [min(wave), max(wave)], whatever the units of the query
\* and of the filter's grid
C6_ZeroOutsideRange ==
    (op.name = "interp" /\ PhysicallyOutside(filt[1], op.args.value[1], op.args.unit))
        => result = <<<<R(0)>>>>

AnyNonZero(resp) == \E i \in 1..Len(resp) : resp[i] # 0

Uniform(x) == \A i \in 1..(Len(x) - 2) : x[i + 1] - x[i] = x[i + 2] - x[i + 1]

NonNegative(resp) == \A i \in 1..Len(resp) : resp[i] >= 0

OnlyAtOneEnd(resp) ==
    \/ \A i \in 2..Len(resp) : resp[i] = 0
    \/ \A i \in 1..(Len(resp) - 1) : resp[i] = 0

----------------------------------------------------------------------------
(* Properties of Filter.__call__ *)

Ascending(freq) == \A p \in 1..(Len(freq) - 1) : RLt(freq[p], freq[p + 1])

\* the three values at position p belong to input sample i
SameSample(q, f, a, p, i) ==
    /\ q.freq[p] = ToFreq(a.wave.value[i], a.wave.unit)
    /\ q.flux_density[p] = ToJy(a.flux_density.value[i], a.flux_density.unit)
    /\ q.new_resp[p] = Interp(f, [value |-> <<a.wave.value[i]>>, unit |-> a.wave.unit])[1]

Resupplied(a, p) ==
    [wave |-> [value |-> Take(a.wave.value, p), unit |-> a.wave.unit],
     flux_density |-> [value |-> Take(a.flux_density.value, p),
                       unit |-> a.flux_density.unit],
     mag |-> a.mag]

EvenlySpaced(freq) ==
    \A p \in 1..(Len(freq) - 2) :
        RSub(freq[p + 1], freq[p]) = RSub(freq[p + 2], freq[p + 1])

AllNonNegative(s) == \A p \in 1..Len(s) : RLe(R(0), s[p])

\* C10: in Filter.__call__ the frequencies handed to the quadrature ascend,
\* the response and the flux density at each position belong to the same
\* input sample as the frequency there, the value returned does not depend
\* on the order the samples are supplied in, and the flux is non-negative
\* for non-negative flux density and response on an evenly spaced
\* frequency grid
C10_SortedByFrequency ==
    op.name = "call" =>
        LET q == quad[1]
            a == op.args
            n == Len(a.wave.value)
        IN  /\ Ascending(q.freq)
            /\ \E idx \in Perms(n) : \A p \in 1..n : SameSample(q, filt[1], a, p, idx[p])
            /\ \A p \in Perms(n) :
                   LET b == Resupplied(a, p)
                   IN  result[1] = FilterCall(filt[1], b.wave, b.flux_density, b.mag)
            /\ (/\ ~a.mag
                /\ EvenlySpaced(q.freq)
                /\ AllNonNegative(q.flux_density)
                /\ AllNonNegative(q.new_resp))
                    => RLe(R(0), result[1].value)

\* a spectrum supplied in ascending wavelength order, hence descending
\* frequency, with unequal flux densities, measured by a filter into a
\* positive flux
C10_Witness ==
    /\ op.name = "call"
    /\ op.args.wave.value = <<20, 30, 60>>
    /\ op.args.flux_density.value = <<0, 1, 2>>
    /\ ~op.args.mag
    /\ filt[1].wave = [value |-> <<20, 30, 60>>, unit |-> "angstrom"]
    /\ filt[1].resp = <<0, 0, 1>>
    /\ RLt(R(0), result[1].value)

----------------------------------------------------------------------------
(* Properties of FilterSet *)

SetJustConstructed == op.name = "FilterSet"

\* a center as a physical length, in angstroms
PhysicalCenter(f) == RMul(R(ToAngstrom(1, f.center.unit)), f.center.value)

NonDecreasing(v) == \A i, j \in 1..Len(v) : i < j => RLe(v[i], v[j])

\* C1: a FilterSet made from a non-empty explicit list holds its filters in
\* ascending order of center, compared as physical lengths, and S.center is
\* non-decreasing
C1_SortedByPhysicalCenter ==
    (SetJustConstructed /\ ~op.args.filters.isstr /\ fset # <<>>)
        => /\ NonDecreasing([i \in 1..Len(fset[1].filters) |->
                                PhysicalCenter(fset[1].filters[i])])
           /\ NonDecreasing(SetCenter(fset[1]).value)

Recognised(str) ==
    Lower(Strip(str)) \in {<<"s", "d", "s", "s">>, <<"c", "f", "h", "t">>, <<"m", "e", "g", "a", "c", "a", "m">>, <<"c", "f", "h", "t", "/", "m", "e", "g", "a", "c", "a", "m">>}

Contains(msg, str) ==
    \E k \in 0..(Len(msg) - Len(str)) : SubSeq(msg, k + 1, k + Len(str)) = str

\* C3: FilterSet(name) with a name that is no catalog's raises the lookup
\* error, whose message holds the name; no FilterSet is made and no catalog
\* file is read
C3_UnknownNameRejected ==
    (SetJustConstructed /\ op.args.filters.isstr /\ ~Recognised(op.args.filters.str))
        => /\ err.type = "ValueError"
           /\ Contains(err.msg, op.args.filters.str)
           /\ fset = <<>>
           /\ filesRead = 0

\* an unknown name was asked for while the catalog folders held tables
C3_Witness ==
    /\ SetJustConstructed
    /\ op.args.filters.isstr
    /\ op.args.filters.str = <<"s", "d", "s", "s", "2">>
    /\ Len(op.args.tables) = 2
    /\ err.type = "ValueError"
    /\ fset = <<>>

EmptyResult(a) ==
    \/ ~a.filters.isstr /\ a.filters.list = <<>>
    \/ a.filters.isstr /\ Recognised(a.filters.str) /\ a.tables = <<>>

\* C4: FilterSet(...) raises the assertion of line 148 whenever the list of
\* filters it gathered is empty, be it an empty list passed in or a catalog
\* without tables
C4_EmptyRaisesAssertion ==
    (SetJustConstructed /\ EmptyResult(op.args))
        => /\ err = Raised("AssertionError", 148)
           /\ fset = <<>>

\* C7: S(wave, flux, mag) returns one value per member filter, the value at
\* position i being S[i](wave, flux, mag)
C7_CallInSetOrder ==
    op.name = "setcall" =>
        /\ Len(result[1]) = Len(fset[1].filters)
        /\ \A i \in 1..Len(fset[1].filters) :
               result[1][i] = FilterCall(fset[1].filters[i], spectrum[1].wave,
                                         spectrum[1].flux, op.args.mag)

\* a set of two filters with different centers was called and returned two
\* different values
C7_Witness ==
    /\ op.name = "setcall"
    /\ Len(fset[1].filters) = 2
    /\ SetCenter(fset[1]).value[1] # SetCenter(fset[1]).value[2]
    /\ result[1][1] # result[1][2]

ReadOps == {"setcall", "center", "width", "getitem", "iter", "interp", "call"}

\* what read operation o returns on FilterSet s for the caller's arrays sp
Expected(s, sp, o) ==
    CASE o.name = "setcall" -> SetCall(s, sp.wave, sp.flux, o.args.mag)
      [] o.name = "center" -> SetCenter(s)
      [] o.name = "width" -> SetWidth(s)
      [] o.name = "getitem" -> s.filters[o.args.index]
      [] o.name = "iter" -> s.filters
      [] o.name = "interp" -> Interp(s.filters[o.args.index], sp.wave)
      [] o.name = "call" -> FilterCall(s.filters[o.args.index], sp.wave, sp.flux,
                                       o.args.mag)

\* C8: a read operation changes neither the FilterSet, its filters and their
\* order, nor the caller's arrays, and what it returned is what the same
\* call returns on the state it left behind
C8_ReadsChangeNothing ==
    [][op'.name \in ReadOps =>
          /\ fset' = fset
          /\ spectrum' = spectrum
          /\ result' = <<Expected(fset'[1], spectrum'[1], op')>>]_vars

\* interp was called, with wavelengths in angstroms, on a member filter whose
\* grid is in nanometres, after an earlier read
C8_Witness ==
    /\ op.name = "interp"
    /\ fset[1].filters[op.args.index].wave.unit = "nm"
    /\ spectrum[1].wave.unit = "angstrom"
    /\ Len(fset[1].filters) = 2

====
